---- MODULE Spec2Model ----
(***************************************************************************)
(* Model of etl.py: the Sparkify data-lake ETL job.                        *)
(*                                                                         *)
(* A row is a record.  A column whose value is SQL NULL (a JSON key that   *)
(* is absent or null) is a field that is missing from the record, so that  *)
(* the SQL rule "NULL = x is never true" is a test on DOMAIN.  A table or  *)
(* data frame is a sequence of rows.  The destination is a function from   *)
(* the names of the tables that exist under output_data to their rows.     *)
(* A user id is a sequence of one-character strings, so that TRIM can be   *)
(* computed; every other string is a TLA+ string.  Durations are exact     *)
(* numbers (tenths of a second here), ts is epoch milliseconds.            *)
(***************************************************************************)
EXTENDS Integers, Sequences, FiniteSets, TLC

\* ----- bounds of the model ------------------------------------------------
MaxSongs == 2
MaxLogs == 2
MaxRuns == 2

\* ----- generic helpers on sequences ---------------------------------------
Range(s) == {s[i] : i \in 1..Len(s)}

SeqsUpTo(S, n) == UNION {[1..k -> S] : k \in 0..n}

IsPrefix(s, t) == Len(s) <= Len(t) /\ \A i \in 1..Len(s) : s[i] = t[i]

Count(s, r) == Cardinality({i \in 1..Len(s) : s[i] = r})

\* ----- SQL building blocks ------------------------------------------------
\* SELECT out AS ... : cols maps each output column to its input column; a
\* NULL input column gives a NULL output column.
Project(r, cols) == [c \in {o \in DOMAIN cols : cols[o] \in DOMAIN r} |-> r[cols[c]]]

SelectCols(df, cols) == [i \in 1..Len(df) |-> Project(df[i], cols)]

\* SELECT DISTINCT: one copy of every row, rows compared on all columns.
Distinct(df) ==
    LET first == SelectSeq([i \in 1..Len(df) |-> i],
                           LAMBDA i : \A j \in 1..(i - 1) : df[j] # df[i])
    IN  [k \in 1..Len(first) |-> df[first[k]]]

\* a.ca = b.cb in SQL: true only when both sides are non-NULL and equal.
SqlEq(a, ca, b, cb) == ca \in DOMAIN a /\ cb \in DOMAIN b /\ a[ca] = b[cb]

\* TRIM(str) of Spark SQL removes leading and trailing space characters
\* (U+0020) only.
RECURSIVE LTrim(_)
LTrim(s) == IF s # <<>> /\ Head(s) = " " THEN LTrim(Tail(s)) ELSE s

RECURSIVE RTrim(_)
RTrim(s) == IF s # <<>> /\ s[Len(s)] = " " THEN RTrim(SubSeq(s, 1, Len(s) - 1)) ELSE s

Trim(s) == RTrim(LTrim(s))

\* ----- calendar functions of the engine ----------------------------------
MsPerDay == 86400000
MsPerHour == 3600000

\* days since 1970-01-01 of the local wall-clock date of instant t
LocalDays(t, zone) == (t + zone) \div MsPerDay

\* proleptic Gregorian date of a day number (era algorithm)
Civil(days) ==
    LET z == days + 719468
        era == z \div 146097
        doe == z - era * 146097
        yoe == (doe - doe \div 1460 + doe \div 36524 - doe \div 146096) \div 365
        doy == doe - (365 * yoe + yoe \div 4 - yoe \div 100)
        mp == (5 * doy + 2) \div 153
        d == doy - (153 * mp + 2) \div 5 + 1
        m == IF mp < 10 THEN mp + 3 ELSE mp - 9
    IN  [year |-> yoe + era * 400 + (IF m <= 2 THEN 1 ELSE 0), month |-> m, day |-> d]

IsLeap(y) == (y % 4 = 0 /\ y % 100 # 0) \/ y % 400 = 0

\* day number of January 1st of year y
Jan1(y) == LET p == y - 1
           IN  365 * p + p \div 4 - p \div 100 + p \div 400 - 719162

\* ISO weekday, Monday = 1 .. Sunday = 7 (1970-01-01 was a Thursday)
IsoWeekday(days) == ((days + 3) % 7) + 1

WeeksInYear(y) == IF IsoWeekday(Jan1(y)) = 4 \/ (IsLeap(y) /\ IsoWeekday(Jan1(y)) = 3)
                  THEN 53 ELSE 52

Hour(t, zone) == ((t + zone) % MsPerDay) \div MsPerHour

DayOfMonth(t, zone) == Civil(LocalDays(t, zone)).day

Month(t, zone) == Civil(LocalDays(t, zone)).month

Year(t, zone) == Civil(LocalDays(t, zone)).year

\* DAYOFWEEK: Sunday = 1 .. Saturday = 7
DayOfWeek(t, zone) == ((LocalDays(t, zone) + 4) % 7) + 1

\* WEEKOFYEAR: ISO 8601 week number
WeekOfYear(t, zone) ==
    LET days == LocalDays(t, zone)
        y == Civil(days).year
        w == (days - Jan1(y) + 1 - IsoWeekday(days) + 10) \div 7
    IN  IF w < 1 THEN WeeksInYear(y - 1)
        ELSE IF w > WeeksInYear(y) THEN 1 ELSE w

\* ----- the input data under input_data ------------------------------------
\* song_data/*/*/*/*.json: the song-metadata records the model draws from
SongRecs == {
    [song_id |-> "S1", title |-> "Imagine", artist_id |-> "A1", artist_name |-> "Lennon",
     artist_location |-> "NYC", artist_latitude |-> 40, artist_longitude |-> 74,
     year |-> 1971, duration |-> 1835],
    [song_id |-> "S2", title |-> "Imagine", artist_id |-> "A1", artist_name |-> "Lennon",
     artist_location |-> "London", artist_latitude |-> 51, artist_longitude |-> 0,
     year |-> 1988, duration |-> 1835],
    [song_id |-> "S3", title |-> "Woman", artist_id |-> "A1", artist_name |-> "John Lennon",
     year |-> 0, duration |-> 2120] }

\* log_data/*.json: the log events the model draws from
LogRecs == {
    [page |-> "NextSong", userId |-> <<"7">>, firstName |-> "Ann", lastName |-> "Lee",
     gender |-> "F", level |-> "free", ts |-> 86400000, song |-> "Imagine",
     artist |-> "Lennon", length |-> 1835, sessionId |-> 1, location |-> "SF",
     userAgent |-> "Mozilla"],
    [page |-> "NextSong", userId |-> <<>>, level |-> "paid", ts |-> 86400001,
     song |-> "Imagine", artist |-> "Lennon", length |-> 1836, sessionId |-> 2,
     location |-> "SF", userAgent |-> "Mozilla"],
    [page |-> "NextSong", userId |-> <<" ", " ">>, ts |-> 3600000, song |-> "Imagine",
     artist |-> "Lennon", length |-> 1835, sessionId |-> 3, userAgent |-> "curl"],
    [page |-> "NextSong", userId |-> <<"\t">>, ts |-> 3600000, song |-> "Woman",
     artist |-> "Lennon", length |-> 2120, sessionId |-> 4, userAgent |-> "curl"],
    [page |-> "NextSong", level |-> "free", ts |-> 0, song |-> "Woman",
     artist |-> "John Lennon", length |-> 2120, sessionId |-> 5, userAgent |-> "Opera"],
    [page |-> "Home", userId |-> <<"8">>, firstName |-> "Bob", lastName |-> "Ray",
     gender |-> "M", level |-> "free", ts |-> 7200000, sessionId |-> 6,
     location |-> "LA", userAgent |-> "Mozilla"] }

\* offsets of the local time zone from UTC, in milliseconds
Zones == {0, -18000000}

\* ----- the destination under output_data ---------------------------------
Tables == {"songs", "artists", "users", "time", "songplays"}

\* a destination that holds nothing yet
CleanDest == <<>>

\* a destination that holds the output of an earlier job over other input
StaleDest ==
    [songs |-> <<[song_id |-> "S9", title |-> "Imagine", artist_id |-> "A1",
                  year |-> 1999, duration |-> 1835]>>,
     artists |-> <<[artist_id |-> "A1", name |-> "Lennon", location |-> "Old"]>>,
     users |-> <<[user_id |-> <<"9">>, level |-> "paid"]>>,
     time |-> <<[start_time |-> 5, hour |-> 0, day |-> 1, week |-> 1, month |-> 1,
                 year |-> 1970, weekday |-> 5]>>,
     songplays |-> <<[songplay_id |-> 0, start_time |-> 5, user_id |-> <<"9">>,
                      song_id |-> "S9", artist_id |-> "A1", session_id |-> 9,
                      month |-> 1, year |-> 1970]>>]

\* DataFrameWriter.mode("append").parquet(path)
WriteAppend(d, t, rows) ==
    [x \in DOMAIN d \cup {t} |->
        IF x = t THEN (IF t \in DOMAIN d THEN d[t] ELSE <<>>) \o rows ELSE d[x]]

\* DataFrameWriter.mode("overwrite").parquet(path): the table holds exactly rows
WriteOverwrite(d, t, rows) == [x \in DOMAIN d \cup {t} |-> IF x = t THEN rows ELSE d[x]]

\* a write that failed after the old files were deleted
DropTable(d, t) == [x \in DOMAIN d \ {t} |-> d[x]]

\* spark.read.parquet(path): the rows that the last write left there
ReadParquet(d, t) == d[t]

\* ----- the queries --------------------------------------------------------
SongsCols == [song_id |-> "song_id", title |-> "title", artist_id |-> "artist_id",
              year |-> "year", duration |-> "duration"]

ArtistsCols == [artist_id |-> "artist_id", name |-> "artist_name",
                location |-> "artist_location", latitude |-> "artist_latitude",
                longitude |-> "artist_longitude"]

UsersCols == [user_id |-> "userId", first_name |-> "firstName", last_name |-> "lastName",
              gender |-> "gender", level |-> "level"]

SongsQuery(songsView) == SelectCols(songsView, SongsCols)

ArtistsQuery(songsView) == Distinct(SelectCols(songsView, ArtistsCols))

IsNextSong(l) == "page" \in DOMAIN l /\ l.page = "NextSong"

\* the page filter left out
FilterNothing(df) == df

FilterNextSong(df) == SelectSeq(df, IsNextSong)

\* WHERE TRIM(userId) <> '' : NULL when userId is NULL, so the row is dropped
UserIdNotBlank(l) == "userId" \in DOMAIN l /\ Trim(l.userId) # <<>>

UsersQuery(logsView) == Distinct(SelectCols(SelectSeq(logsView, UserIdNotBlank), UsersCols))

\* datetime.fromtimestamp(x/1000) stored as a TimestampType: the instant, kept
\* in epoch milliseconds; its calendar fields are taken in the local zone.
GetTimestamp(x) ==
    LET second == x \div 1000
        microsecond == (x % 1000) * 1000
    IN  second * 1000 + microsecond \div 1000

WithTimestamp(df) ==
    [i \in 1..Len(df) |->
        [c \in DOMAIN df[i] \cup {"timestamp"} |->
            IF c = "timestamp" THEN GetTimestamp(df[i].ts) ELSE df[i][c]]]

\* the calendar fields taken in UTC instead of the local zone
TimeRowUtc(t, zone) ==
    [start_time |-> t, hour |-> Hour(t, 0), day |-> DayOfMonth(t, 0),
     week |-> WeekOfYear(t, 0), month |-> Month(t, 0), year |-> Year(t, 0),
     weekday |-> DayOfWeek(t, 0)]

TimeRow(t, zone) ==
    [start_time |-> t, hour |-> Hour(t, zone), day |-> DayOfMonth(t, zone),
     week |-> WeekOfYear(t, zone), month |-> Month(t, zone), year |-> Year(t, zone),
     weekday |-> DayOfWeek(t, zone)]

TimeQuery(timeView, zone) ==
    Distinct([i \in 1..Len(timeView) |-> TimeRow(timeView[i].timestamp, zone)])

\* the rows of logs x songs x artists that satisfy both ON conditions, in
\* the order of the nested scan
JoinOnTitleOnly(l, s, a) == /\ SqlEq(s, "title", l, "song")
                            /\ SqlEq(a, "artist_id", s, "artist_id")
                            /\ SqlEq(a, "name", l, "artist")

JoinOn(l, s, a) == /\ SqlEq(s, "title", l, "song")
                   /\ SqlEq(s, "duration", l, "length")
                   /\ SqlEq(a, "artist_id", s, "artist_id")
                   /\ SqlEq(a, "name", l, "artist")

Joined(logsView, songsView, artistsView) ==
    LET nS == Len(songsView)
        nA == Len(artistsView)
        all == [n \in 1..(Len(logsView) * nS * nA) |->
                   <<logsView[((n - 1) \div (nS * nA)) + 1],
                     songsView[(((n - 1) \div nA) % nS) + 1],
                     artistsView[((n - 1) % nA) + 1]>>]
    IN  SelectSeq(all, LAMBDA t : JoinOn(t[1], t[2], t[3]))

SongplayRow(id, l, s, a, zone) ==
    [songplay_id |-> id] @@
    Project(l, [start_time |-> "timestamp", user_id |-> "userId",
                session_id |-> "sessionId", location |-> "location",
                user_agent |-> "userAgent"]) @@
    Project(s, [song_id |-> "song_id"]) @@
    Project(a, [artist_id |-> "artist_id"]) @@
    [month |-> Month(l.timestamp, zone), year |-> Year(l.timestamp, zone)]

\* monotonically_increasing_id(): increasing and unique within one query,
\* starting from an offset that differs from run to run
SongplaysQuery(logsView, songsView, artistsView, base, zone) ==
    LET j == Joined(logsView, songsView, artistsView)
    IN  [n \in 1..Len(j) |-> SongplayRow(base + n - 1, j[n][1], j[n][2], j[n][3], zone)]

IdBases == {0, 8}

\* ----- the job ------------------------------------------------------------
VARIABLES
    songIn,       \* the records under input_data/song_data
    logIn,        \* the events under input_data/log_data
    zone,         \* offset of the local time zone of the machine
    dest,         \* the tables under output_data
    views,        \* the temp views of the Spark session
    logs_df,      \* the local variable logs_df of process_log_data
    pc,           \* the statement main is blocked on
    run,          \* number of the current invocation of main
    before,       \* history: dest when the current invocation started
    overwritten,  \* history: tables whose files this invocation replaced or deleted
    prev          \* history: output of the last invocation that completed

vars == <<songIn, logIn, zone, dest, views, logs_df, pc, run, before, overwritten, prev>>

input == <<songIn, logIn, zone>>

\* main with its two calls exchanged
MainLogDataFirst == "read_log_data"

\* main: process_song_data, then process_log_data
MainFirstStep == "read_song_data"

AfterSongData == "read_log_data"

AfterLogData == "done"

Steps == {"read_song_data", "write_songs", "write_artists", "read_log_data", "write_users",
          "write_time", "load_songs", "load_artists", "write_songplays"}

\* the output paths of users and time exchanged
WriteTargetExchanged == [write_songs |-> "songs", write_artists |-> "artists",
                         write_users |-> "time", write_time |-> "users",
                         write_songplays |-> "songplays"]

\* the table a step writes
WriteTarget == [write_songs |-> "songs", write_artists |-> "artists",
                write_users |-> "users", write_time |-> "time",
                write_songplays |-> "songplays"]

SetView(v, name, df) == [x \in DOMAIN v \cup {name} |-> IF x = name THEN df ELSE v[x]]

\* the tables without the run-dependent songplay identifiers
StripIds(d) ==
    [t \in DOMAIN d |->
        IF t = "songplays"
        THEN [i \in 1..Len(d[t]) |-> [c \in DOMAIN d[t][i] \ {"songplay_id"} |-> d[t][i][c]]]
        ELSE d[t]]

Init ==
    /\ songIn \in SeqsUpTo(SongRecs, MaxSongs)
    /\ logIn \in SeqsUpTo(LogRecs, MaxLogs)
    /\ zone \in Zones
    /\ dest \in {CleanDest, StaleDest}
    /\ views = <<>>
    /\ logs_df = <<>>
    /\ pc = MainFirstStep
    /\ run = 1
    /\ before = dest
    /\ overwritten = <<>>
    /\ prev = <<>>

\* etl.py 35-41
ReadSongData ==
    /\ pc = "read_song_data"
    /\ views' = SetView(views, "songs", songIn)
    /\ pc' = "write_songs"
    /\ UNCHANGED <<input, dest, logs_df, run, before, overwritten, prev>>

\* etl.py 44-54
WriteSongsTable ==
    /\ pc = "write_songs"
    /\ dest' = WriteOverwrite(dest, WriteTarget[pc], SongsQuery(views["songs"]))
    /\ overwritten' = Append(overwritten, WriteTarget[pc])
    /\ pc' = "write_artists"
    /\ UNCHANGED <<input, views, logs_df, run, before, prev>>

\* etl.py 57-67
WriteArtistsTable ==
    /\ pc = "write_artists"
    /\ dest' = WriteOverwrite(dest, WriteTarget[pc], ArtistsQuery(views["songs"]))
    /\ overwritten' = Append(overwritten, WriteTarget[pc])
    /\ pc' = AfterSongData
    /\ UNCHANGED <<input, views, logs_df, run, before, prev>>

\* etl.py 80-89
ReadLogData ==
    /\ pc = "read_log_data"
    /\ logs_df' = FilterNextSong(logIn)
    /\ views' = SetView(views, "logs", logs_df')
    /\ pc' = "write_users"
    /\ UNCHANGED <<input, dest, run, before, overwritten, prev>>

\* etl.py 92-103
WriteUsersTable ==
    /\ pc = "write_users"
    /\ dest' = WriteOverwrite(dest, WriteTarget[pc], UsersQuery(views["logs"]))
    /\ overwritten' = Append(overwritten, WriteTarget[pc])
    /\ pc' = "write_time"
    /\ UNCHANGED <<input, views, logs_df, run, before, prev>>

\* etl.py 106-125
WriteTimeTable ==
    /\ pc = "write_time"
    /\ logs_df' = WithTimestamp(logs_df)
    /\ views' = SetView(views, "time", SelectCols(logs_df', [timestamp |-> "timestamp"]))
    /\ dest' = WriteOverwrite(dest, WriteTarget[pc], TimeQuery(views'["time"], zone))
    /\ overwritten' = Append(overwritten, WriteTarget[pc])
    /\ pc' = "load_songs"
    /\ UNCHANGED <<input, run, before, prev>>

\* etl.py 128-132
LoadSongsTable ==
    /\ pc = "load_songs"
    /\ "songs" \in DOMAIN dest
    /\ views' = SetView(SetView(views, "logs", logs_df), "songs", ReadParquet(dest, "songs"))
    /\ pc' = "load_artists"
    /\ UNCHANGED <<input, dest, logs_df, run, before, overwritten, prev>>

\* etl.py 135-136
LoadArtistsTable ==
    /\ pc = "load_artists"
    /\ "artists" \in DOMAIN dest
    /\ views' = SetView(views, "artists", ReadParquet(dest, "artists"))
    /\ pc' = "write_songplays"
    /\ UNCHANGED <<input, dest, logs_df, run, before, overwritten, prev>>

\* etl.py 139-156
WriteSongplaysTable ==
    /\ pc = "write_songplays"
    /\ \E base \in IdBases :
          dest' = WriteOverwrite(dest, WriteTarget[pc],
                      SongplaysQuery(views["logs"], views["songs"], views["artists"],
                                     base, zone))
    /\ overwritten' = Append(overwritten, WriteTarget[pc])
    /\ pc' = AfterLogData
    /\ UNCHANGED <<input, views, logs_df, run, before, prev>>

\* A read, a write or the engine raises: nothing catches the exception, main
\* ends.  A write that fails leaves its table as it was or without its files.
Fail ==
    /\ pc \in Steps
    /\ pc' = "aborted"
    /\ \/ UNCHANGED <<dest, overwritten>>
       \/ /\ pc \in DOMAIN WriteTarget
          /\ WriteTarget[pc] \in DOMAIN dest
          /\ dest' = DropTable(dest, WriteTarget[pc])
          /\ overwritten' = Append(overwritten, WriteTarget[pc])
    /\ UNCHANGED <<input, views, logs_df, run, before, prev>>

\* the job is run again over the same input, in a new Spark session
Rerun ==
    /\ pc = "done"
    /\ run < MaxRuns
    /\ run' = run + 1
    /\ pc' = MainFirstStep
    /\ views' = <<>>
    /\ logs_df' = <<>>
    /\ before' = dest
    /\ overwritten' = <<>>
    /\ prev' = <<StripIds(dest)>>
    /\ UNCHANGED <<input, dest>>

Next ==
    \/ ReadSongData
    \/ WriteSongsTable
    \/ WriteArtistsTable
    \/ ReadLogData
    \/ WriteUsersTable
    \/ WriteTimeTable
    \/ LoadSongsTable
    \/ LoadArtistsTable
    \/ WriteSongplaysTable
    \/ Fail
    \/ Rerun

Spec == Init /\ [][Next]_vars

\* ----- vocabulary of the properties ----------------------------------------
WriteOrder == <<"songs", "artists", "users", "time", "songplays">>

NextSongEvents == {logIn[i] : i \in {k \in 1..Len(logIn) :
                                       "page" \in DOMAIN logIn[k] /\ logIn[k].page = "NextSong"}}

NextSongCount == Cardinality({k \in 1..Len(logIn) :
                                 "page" \in DOMAIN logIn[k] /\ logIn[k].page = "NextSong"})

\* the columns a songplays row takes from its log event
LogPartOfRow(r) == [c \in DOMAIN r \cap {"start_time", "user_id", "session_id", "location",
                                          "user_agent"} |-> r[c]]

LogPartOfEvent(e) == Project(e, [start_time |-> "ts", user_id |-> "userId",
                                 session_id |-> "sessionId", location |-> "location",
                                 user_agent |-> "userAgent"])

\* e has a songs row of equal title and duration whose artist has an artists
\* row of equal id and of the name the event gives
HasSongAndArtist(e, d) ==
    \E i \in 1..Len(d.songs), j \in 1..Len(d.artists) :
        LET s == d.songs[i]
            a == d.artists[j]
        IN  /\ {"title", "duration", "artist_id"} \subseteq DOMAIN s
            /\ {"song", "length", "artist"} \subseteq DOMAIN e
            /\ {"artist_id", "name"} \subseteq DOMAIN a
            /\ s.title = e.song /\ s.duration = e.length
            /\ a.artist_id = s.artist_id /\ a.name = e.artist

\* songplays has a row with the log columns of e; the events of LogRecs differ
\* in sessionId, so such a row comes from e (or from a copy of e)
HasRow(e, d) == \E k \in 1..Len(d.songplays) : LogPartOfRow(d.songplays[k]) = LogPartOfEvent(e)

\* C1: after a run that completed, a NextSong event has a songplays row iff
\* the songs table has a row of its title and of exactly its length whose
\* artist_id has an artists row of the event's artist name.
C1_JoinIff ==
    pc = "done" => \A e \in NextSongEvents : HasRow(e, dest) <=> HasSongAndArtist(e, dest)

C1_Witness ==
    /\ pc = "done"
    /\ \E e \in NextSongEvents : HasRow(e, dest)
    /\ \E e \in NextSongEvents :
          /\ ~HasRow(e, dest)
          /\ \E i \in 1..Len(dest.songs) :
                dest.songs[i].title = e.song /\ dest.songs[i].duration # e.length

\* C2: the songplays table has at most as many rows as the input has
\* NextSong events.
C2_AtMostOneRowPerEvent == pc = "done" => Len(dest.songplays) <= NextSongCount

\* C3: no two rows of the artists table have the same artist_id.
C3_ArtistIdUnique ==
    pc = "done" =>
        \A i, j \in 1..Len(dest.artists) :
            i # j => ~SqlEq(dest.artists[i], "artist_id", dest.artists[j], "artist_id")

\* C4: no two rows of the songs table have the same song_id, and every row
\* is the five-column projection of an input record.
C4_SongIdUnique ==
    pc = "done" =>
        /\ \A i, j \in 1..Len(dest.songs) :
              i # j => ~SqlEq(dest.songs[i], "song_id", dest.songs[j], "song_id")
        /\ \A i \in 1..Len(dest.songs) :
              \E k \in 1..Len(songIn) :
                  dest.songs[i] = [c \in DOMAIN songIn[k] \cap
                                      {"song_id", "title", "artist_id", "year", "duration"}
                                   |-> songIn[k][c]]

\* C5: whenever process_log_data loads songs and artists, or joins on them,
\* both tables exist and were written by this run; the join runs on exactly
\* the rows this run wrote.
C5_LoadAfterWrites ==
    /\ pc \in {"load_songs", "load_artists", "write_songplays"} =>
          /\ {"songs", "artists"} \subseteq Range(overwritten)
          /\ {"songs", "artists"} \subseteq DOMAIN dest
    /\ pc = "write_songplays" =>
          /\ views["songs"] = [i \in 1..Len(songIn) |->
                                  [c \in DOMAIN songIn[i] \cap
                                       {"song_id", "title", "artist_id", "year", "duration"}
                                   |-> songIn[i][c]]]
          /\ views["artists"] = dest.artists

C5_Witness ==
    /\ pc = "write_songplays"
    /\ before = StaleDest
    /\ views["songs"] # before.songs
    /\ views["artists"] # before.artists

\* C6: the tables a run has replaced or deleted so far are a prefix of the
\* write order, every other table is as it was when the run started, and
\* once a run has aborted it takes no further step.
TablesInOrder ==
    /\ IsPrefix(overwritten, WriteOrder)
    /\ \A t \in Tables \ Range(overwritten) :
          /\ t \in DOMAIN dest <=> t \in DOMAIN before
          /\ t \in DOMAIN dest => dest[t] = before[t]

C6_AbortLeavesPrefix ==
    /\ []TablesInOrder
    /\ [][pc # "aborted"]_vars

C6_Witness ==
    /\ pc = "aborted"
    /\ before = StaleDest
    /\ Len(overwritten) = 3
    /\ dest.songs # before.songs
    /\ dest.time = before.time
    /\ dest.songplays = before.songplays

Whitespace == {" ", "\t", "\n", "\r"}

IsBlankId(id) == \A i \in 1..Len(id) : id[i] \in Whitespace

\* C7: every users row has a user id that is not empty and not only
\* whitespace; a NextSong event whose userId is empty, blank or absent gives no
\* users row, and every other NextSong event's tuple is in users exactly once.
C7_NoBlankUserId ==
    pc = "done" =>
        /\ \A i \in 1..Len(dest.users) :
              "user_id" \in DOMAIN dest.users[i] /\ ~IsBlankId(dest.users[i].user_id)
        /\ \A e \in NextSongEvents :
              Count(dest.users, Project(e, UsersCols)) =
                  IF "userId" \in DOMAIN e /\ ~IsBlankId(e.userId) THEN 1 ELSE 0

\* the input without its events of another page
OnlyNextSong(logs) ==
    LET keep == SelectSeq([i \in 1..Len(logs) |-> i],
                          LAMBDA i : "page" \in DOMAIN logs[i] /\ logs[i].page = "NextSong")
    IN  [k \in 1..Len(keep) |-> logs[keep[k]]]

\* C8: every row of users, time and songplays comes from an event whose page
\* is NextSong, and the three tables are those the job computes from the
\* input without its other events.
C8_OnlyNextSong ==
    pc = "done" =>
        /\ \A i \in 1..Len(dest.users) :
              \E e \in NextSongEvents : dest.users[i] = Project(e, UsersCols)
        /\ \A i \in 1..Len(dest.time) :
              \E e \in NextSongEvents : dest.time[i].start_time = e.ts
        /\ \A i \in 1..Len(dest.songplays) :
              \E e \in NextSongEvents : LogPartOfRow(dest.songplays[i]) = LogPartOfEvent(e)
        /\ LET logs == FilterNextSong(OnlyNextSong(logIn))
               stamped == WithTimestamp(logs)
           IN  /\ dest.users = UsersQuery(logs)
               /\ dest.time = TimeQuery(SelectCols(stamped, [timestamp |-> "timestamp"]), zone)
               /\ StripIds(dest).songplays =
                      StripIds([songplays |->
                                    SongplaysQuery(stamped, dest.songs, dest.artists, 0, zone)
                               ]).songplays

C8_Witness ==
    /\ pc = "done"
    /\ \E i \in 1..Len(logIn) : logIn[i].page # "NextSong"
    /\ dest.users # <<>>
    /\ dest.time # <<>>
    /\ dest.songplays # <<>>

\* the five tables as a function of the input alone
Expected ==
    LET stamped == WithTimestamp(FilterNextSong(logIn))
    IN  [songs |-> SongsQuery(songIn),
         artists |-> ArtistsQuery(songIn),
         users |-> UsersQuery(FilterNextSong(logIn)),
         time |-> TimeQuery(SelectCols(stamped, [timestamp |-> "timestamp"]), zone),
         songplays |-> SongplaysQuery(stamped, SongsQuery(songIn), ArtistsQuery(songIn),
                                      0, zone)]

\* C9: a run that completes leaves the tables that the input alone
\* determines, whatever the destination held, and the tables of the run
\* before it, up to the songplay identifiers.
C9_Idempotent ==
    pc = "done" =>
        /\ StripIds(dest) = StripIds(Expected)
        /\ prev # <<>> => StripIds(dest) = prev[1]

C9_Witness ==
    /\ pc = "done"
    /\ run = 2
    /\ prev # <<>>
    /\ dest.songplays # <<>>
    /\ dest.songs = before.songs
    /\ dest.songplays # before.songplays

\* C10: every songplays row has its song_id in songs, its artist_id in
\* artists, and its start_time in a time row of the same month and year.
C10_ReferentialIntegrity ==
    pc = "done" =>
        \A k \in 1..Len(dest.songplays) :
            LET r == dest.songplays[k]
            IN  /\ \E i \in 1..Len(dest.songs) : SqlEq(dest.songs[i], "song_id", r, "song_id")
                /\ \E i \in 1..Len(dest.artists) :
                      SqlEq(dest.artists[i], "artist_id", r, "artist_id")
                /\ \E i \in 1..Len(dest.time) :
                      /\ dest.time[i].start_time = r.start_time
                      /\ dest.time[i].month = r.month
                      /\ dest.time[i].year = r.year

\* a songplays row whose user_id is in no users row, in a month of the year before
C10_Witness ==
    /\ pc = "done"
    /\ \E k \in 1..Len(dest.songplays) :
          /\ "user_id" \in DOMAIN dest.songplays[k]
          /\ \A i \in 1..Len(dest.users) :
                dest.users[i].user_id # dest.songplays[k].user_id
    /\ \E k \in 1..Len(dest.songplays) : dest.songplays[k].year = 1969

====
